---- MODULE Spec2Model ----
(***************************************************************************)
(* Gesture key of the embedded sentry: the gyroscope thread's session      *)
(* state machine (main.cpp), the calibration and conditioning of the raw   *)
(* samples (gyro.cpp) and the trimming and correlation of the recorded     *)
(* sequences (utilities.cpp).                                              *)
(*                                                                         *)
(* The samples are the 32-bit floats the program holds: a float is <<m,    *)
(* e>>, the number m * 2^e with m odd, or <<0, 0>>, and every operation on *)
(* floats returns the float the hardware returns: round to nearest, ties   *)
(* to even, each operation rounded on its own, results below 2^-126 with   *)
(* the digits down to 2^-149 only. There is no infinity: no value of the   *)
(* program comes near overflow. The filter's windows and sums, the         *)
(* recorded sequences, normalize, trim_gyro_data and the correlations of   *)
(* an unlock are computed on these floats.                                 *)
(* Next to the floats the model keeps the filter's windows and sums as the *)
(* numbers they stand for in exact arithmetic (gyro_buffer, gyro_sum), and *)
(* correlation and movingAverageFilter have a second form on fractions     *)
(* <<n, d>>, d > 0, the number n/d in lowest terms: what the program       *)
(* computes when no operation rounds.                                      *)
(***************************************************************************)
EXTENDS Integers, Sequences, FiniteSets, TLC

(***************************************************************************)
(* Bounds of the model.                                                    *)
(***************************************************************************)
\* samples one 3 s recording window holds at most (the loop runs at least once)
MaxSamples == 2
\* touches of the RECORD and UNLOCK buttons in one run
MaxTouches == 2
\* largest angular rate, in raw counts along the gesture axis, the sensor reports
MaxRate == 1
\* longest sequence trim_gyro_data is applied to on its own
MaxTrimLen == 4
\* largest stationary level, in raw counts along the gesture axis, of a calibration burst
MaxLevel == 1

(***************************************************************************)
(* Program constants.                                                      *)
(***************************************************************************)
WINDOW_SIZE == 5
CALIBRATION_SAMPLES == 128
CALIBRATION_SHIFT == 7
AXES == 3

Axes == 1..AXES

(***************************************************************************)
(* Exact arithmetic: fractions.                                            *)
(***************************************************************************)
Abs(x) == IF x < 0 THEN -x ELSE x
Min(a, b) == IF a < b THEN a ELSE b
Max(a, b) == IF a > b THEN a ELSE b

RECURSIVE Gcd(_, _)
Gcd(a, b) == IF b = 0 THEN a ELSE Gcd(b, a % b)

\* the fraction n/d (d # 0), in lowest terms
Rat(n, d) ==
    LET g == Gcd(Abs(n), Abs(d))
        s == IF d < 0 THEN -1 ELSE 1
    IN  <<(s * n) \div g, (s * d) \div g>>

F(n) == <<n, 1>>
FZero == <<0, 1>>
\* the least common denominator of a and b
Lcd(a, b) == (a[2] \div Gcd(a[2], b[2])) * b[2]
\* the numerator of a over the denominator d, a multiple of a's own
Over(a, d) == a[1] * (d \div a[2])
\* the one element of a singleton set
The(S) == CHOOSE r \in S : TRUE

\* Fractions: the operations on two numbers <<n, d>>.
Sum(a, b) == Rat(Over(a, Lcd(a, b)) + Over(b, Lcd(a, b)), Lcd(a, b))
Difference(a, b) == Rat(Over(a, Lcd(a, b)) - Over(b, Lcd(a, b)), Lcd(a, b))
Product(a, b) ==
    LET p == Rat(a[1], b[2])
        q == Rat(b[1], a[2])
    IN  <<p[1] * q[1], p[2] * q[2]>>
Less(a, b) == Over(a, Lcd(a, b)) < Over(b, Lcd(a, b))

\* the largest r in lo..hi with r * r <= n, by bisection
RECURSIVE RootIn(_, _, _)
RootIn(n, lo, hi) ==
    The({IF x[1] >= x[2] THEN x[1]
         ELSE IF x[3] * x[3] <= n THEN RootIn(n, x[3], x[2])
         ELSE RootIn(n, x[1], x[3] - 1) :
         x \in {<<lo, hi, (lo + hi + 1) \div 2>>}})

\* the largest r with r * r <= n
RootFloor(n) == The({RootIn(x, 0, Min(x, 46340)) : x \in {n}})

\* The operations take their operands by value, as the C++ operators do:
\* each operand is evaluated once, whatever expression it is.
FAdd(a, b) == The({Sum(p[1], p[2]) : p \in {<<a, b>>}})
FSub(a, b) == The({Difference(p[1], p[2]) : p \in {<<a, b>>}})
FMul(a, b) == The({Product(p[1], p[2]) : p \in {<<a, b>>}})
\* a / b for b # 0
FDiv(a, b) == The({Product(p[1], Rat(p[2][2], p[2][1])) : p \in {<<a, b>>}})
\* the comparisons, of fractions
FLt(a, b) == The({Less(p[1], p[2]) : p \in {<<a, b>>}})
FLe(a, b) == The({~Less(p[2], p[1]) : p \in {<<a, b>>}})

(***************************************************************************)
(* 32-bit floats.  A float is <<m, e>>, the number m * 2^e with m odd and  *)
(* |m| < 2^24, or <<0, 0>>.  Every operation returns the float nearest to  *)
(* the exact result, the one with the even mantissa on a tie.  As in the   *)
(* arithmetic above every operand is evaluated once.                       *)
(***************************************************************************)
Zero32 == <<0, 0>>

\* the number of binary digits of n >= 0
RECURSIVE Bits(_)
Bits(n) ==
    The({IF x >= 65536 THEN 16 + Bits(x \div 65536)
         ELSE IF x >= 256 THEN 8 + Bits(x \div 256)
         ELSE IF x >= 16 THEN 4 + Bits(x \div 16)
         ELSE IF x >= 4 THEN 2 + Bits(x \div 4)
         ELSE IF x >= 2 THEN 2
         ELSE x :
         x \in {n}})

\* the number of factors 2 of n > 0
RECURSIVE Twos(_)
Twos(n) ==
    The({IF x % 65536 = 0 THEN 16 + Twos(x \div 65536)
         ELSE IF x % 256 = 0 THEN 8 + Twos(x \div 256)
         ELSE IF x % 16 = 0 THEN 4 + Twos(x \div 16)
         ELSE IF x % 2 = 0 THEN 1 + Twos(x \div 2)
         ELSE 0 :
         x \in {n}})

\* the exponent of the last digit of the smallest values of the type float
MinExponent == -149

\* m * 2^e with the factors 2 of m moved into the exponent
Canon(m, e) ==
    The({IF x[1] = 0 THEN Zero32
         ELSE The({<<x[1] \div (2 ^ t), x[2] + t>> : t \in {Twos(Abs(x[1]))}}) :
         x \in {<<m, e>>}})

\* sign * n * 2^e without the last sh > 0 digits of n, rounded to the nearest
Cut(sign, n, e, sh) ==
    The({Canon(sign * (IF x[2] > x[3] \/ (x[2] = x[3] /\ x[1] % 2 = 1)
                       THEN x[1] + 1 ELSE x[1]), e + sh) :
         x \in {<<n \div (2 ^ sh), n % (2 ^ sh), 2 ^ (sh - 1)>>}})

\* the float nearest to sign * n * 2^e for n > 0, where the last digit of n
\* stands for every digit lost below it when n has more than 25: 24 digits
\* are kept, fewer when the last would lie below 2^MinExponent
RoundToFloat(sign, n, e) ==
    The({The({IF sh <= 0 THEN Canon(x[1] * x[2], x[3])
              ELSE IF sh > Bits(x[2]) THEN Zero32
              ELSE Cut(x[1], x[2], x[3], sh) :
              sh \in {Max(Bits(x[2]) - 24, MinExponent - x[3])}}) :
         x \in {<<sign, n, e>>}})

\* a float with its mantissa brought to 24 digits (for a # Zero32)
Widened(a) ==
    The({<<x[1] * (2 ^ (24 - Bits(Abs(x[1])))), x[2] - (24 - Bits(Abs(x[1])))>> :
         x \in {a}})

\* n / 2^d, the digits lost kept as a 1 in the last digit of the result
ShiftedRight(n, d) ==
    The({IF x[2] >= 31 THEN 1
         ELSE IF x[1] % (2 ^ x[2]) # 0 /\ (x[1] \div (2 ^ x[2])) % 2 = 0
         THEN x[1] \div (2 ^ x[2]) + 1
         ELSE x[1] \div (2 ^ x[2]) :
         x \in {<<n, d>>}})

\* x + y for two widened floats, the exponent of x not the smaller one: both
\* get three more digits, y is shifted to the exponent of x and the sum rounded
SumOfWidened(x, y) ==
    The({IF s = 0 THEN Zero32
         ELSE RoundToFloat(IF s < 0 THEN -1 ELSE 1, Abs(s), x[2] - 3) :
         s \in {x[1] * 8 + (IF y[1] < 0 THEN -1 ELSE 1)
                               * ShiftedRight(Abs(y[1]) * 8, x[2] - y[2])}})

\* the float operator +
Add32(a, b) ==
    The({IF p[1] = Zero32 THEN p[2]
         ELSE IF p[2] = Zero32 THEN p[1]
         ELSE The({IF x[2] >= y[2] THEN SumOfWidened(x, y) ELSE SumOfWidened(y, x) :
                   x \in {Widened(p[1])}, y \in {Widened(p[2])}}) :
         p \in {<<a, b>>}})

\* the float operator - (unary and binary)
Neg32(a) == The({<<-x[1], x[2]>> : x \in {a}})
Sub32(a, b) == Add32(a, Neg32(b))

\* the float nearest to sign * (h * 4096 + l) * 2^e, for h of 12 digits or
\* more and l of 12 or fewer
RoundHL(sign, h, l, e) ==
    The({IF sh = 0 THEN Canon(sign * (h * 4096 + l), e)
         ELSE The({Canon(sign * (IF x[2] > x[3] \/ (x[2] = x[3] /\ x[1] % 2 = 1)
                                 THEN x[1] + 1 ELSE x[1]), e + sh) :
                   x \in {<<IF sh <= 12 THEN h * (2 ^ (12 - sh)) + l \div (2 ^ sh)
                                         ELSE h \div (2 ^ (sh - 12)),
                            IF sh <= 12 THEN l % (2 ^ sh)
                                         ELSE (h % (2 ^ (sh - 12))) * 4096 + l,
                            2 ^ (sh - 1)>>}}) :
         sh \in {Bits(h) - 12}})

\* the float operator * for an integer k (an int16_t converted) and a float:
\* the 24 digits of the float are multiplied in two halves of 12
MulInt32(k, a) ==
    The({IF p[1] = 0 \/ p[2] = Zero32 THEN Zero32
         ELSE The({RoundHL(IF (p[1] < 0) # (p[2][1] < 0) THEN -1 ELSE 1,
                           x[1] + x[2] \div 4096, x[2] % 4096, x[3]) :
                   x \in {The({<<Abs(p[1]) * (Abs(w[1]) \div 4096),
                                 Abs(p[1]) * (Abs(w[1]) % 4096),
                                 w[2]>> : w \in {Widened(p[2])}})}}) :
         p \in {<<k, a>>}})

\* the float operator / for a float and an integer 0 < k < 16
DivInt32(a, k) ==
    The({IF p[1] = Zero32 THEN Zero32
         ELSE The({RoundToFloat(IF p[1][1] < 0 THEN -1 ELSE 1,
                                2 * ((Abs(w[1]) * 64) \div p[2])
                                    + (IF (Abs(w[1]) * 64) % p[2] = 0 THEN 0 ELSE 1),
                                w[2] - 7) :
                   w \in {Widened(p[1])}}) :
         p \in {<<a, k>>}})

\* the digits of (q + r/d) * 2^e, one more at a time until there are 26 of
\* them or none is left, rounded
RECURSIVE RoundQuotient(_, _, _, _, _)
RoundQuotient(sign, q, r, d, e) ==
    The({IF x[2] = 0 THEN (IF x[1] = 0 THEN Zero32 ELSE RoundToFloat(sign, x[1], x[3]))
         ELSE IF x[1] >= 33554432 THEN RoundToFloat(sign, 2 * x[1] + 1, x[3] - 1)
         ELSE RoundQuotient(sign, 2 * x[1] + (2 * x[2]) \div d, (2 * x[2]) % d, d, x[3] - 1) :
         x \in {<<q, r, e>>}})

\* the float nearest to the number a = <<n, d>>, as a literal of the source
\* is converted
Float32(a) ==
    The({RoundQuotient(IF x[1] < 0 THEN -1 ELSE 1, Abs(x[1]) \div x[2],
                       Abs(x[1]) % x[2], x[2], 0) : x \in {a}})

\* |a| <= |b| for two floats
AbsLe32(a, b) ==
    The({\/ p[1] = Zero32
         \/ /\ p[2] # Zero32
            /\ \E x \in {Widened(p[1])}, y \in {Widened(p[2])} :
                  x[2] < y[2] \/ (x[2] = y[2] /\ Abs(x[1]) <= Abs(y[1])) :
         p \in {<<a, b>>}})

\* k times 7 more digits of the quotient q + r/d, for r < d < 2^24
RECURSIVE QuotientDigits(_, _, _, _)
QuotientDigits(q, r, d, k) ==
    IF k = 0 THEN <<q, r>>
    ELSE The({QuotientDigits(x[1] * 128 + (x[2] * 128) \div d, (x[2] * 128) % d,
                             d, k - 1) :
              x \in {<<q, r>>}})

\* the float operator / for two floats, b # Zero32: 28 digits of the
\* quotient of the widened mantissas, what is left kept as a 1 in the last
Div32(a, b) ==
    The({IF p[1] = Zero32 THEN Zero32
         ELSE The({The({RoundToFloat(IF (x[1] < 0) # (y[1] < 0) THEN -1 ELSE 1,
                                     2 * q[1] + (IF q[2] = 0 THEN 0 ELSE 1),
                                     x[2] - y[2] - 29) :
                        q \in {QuotientDigits(Abs(x[1]) \div Abs(y[1]),
                                              Abs(x[1]) % Abs(y[1]), Abs(y[1]), 4)}}) :
                   x \in {Widened(p[1])}, y \in {Widened(p[2])}}) :
         p \in {<<a, b>>}})

\* the digits of a square root, one more at a time until there are 25 of
\* them: root * 2^e is the root so far and rem what is left of the number
RECURSIVE RootDigits(_, _, _)
RootDigits(root, rem, e) ==
    The({IF x[1] >= 16777216
         THEN RoundToFloat(1, 2 * x[1] + (IF x[2] = 0 THEN 0 ELSE 1), x[3] - 1)
         ELSE IF 4 * x[2] >= 4 * x[1] + 1
         THEN RootDigits(2 * x[1] + 1, 4 * x[2] - (4 * x[1] + 1), x[3] - 1)
         ELSE RootDigits(2 * x[1], 4 * x[2], x[3] - 1) :
         x \in {<<root, rem, e>>}})

\* the float sqrt of a float a > 0: the root of its mantissa, doubled when
\* the exponent is odd, at half the exponent
Sqrt32(a) ==
    The({The({The({<<r[1], r[2] + y[2] \div 2>> :
                   r \in {RootDigits(y[3], y[1] - y[3] * y[3], 0)}}) :
              y \in {<<x[1], x[2], RootFloor(x[1])>>}}) :
         x \in {IF a[2] % 2 = 0 THEN a ELSE <<2 * a[1], a[2] - 1>>}})

\* the float operator * for two floats: the 24 digits of each in two halves
\* of 12, the 48 digits of the product cut to 28 with the digits lost kept
\* as a 1 in the last
Mul32(a, b) ==
    The({IF p[1] = Zero32 \/ p[2] = Zero32 THEN Zero32
         ELSE The({The({The({RoundToFloat(
                                 IF (p[1][1] < 0) # (p[2][1] < 0) THEN -1 ELSE 1,
                                 2 * (t[1] * 8 + t[2] \div 512)
                                     + (IF t[2] % 512 # 0 \/ t[3] # 0 THEN 1 ELSE 0),
                                 x[3] + y[3] + 20) :
                             t \in {<<h[3] + (h[2] + h[1] \div 4096) \div 4096,
                                      (h[2] + h[1] \div 4096) % 4096,
                                      h[1] % 4096>>}}) :
                        h \in {<<x[2] * y[2], x[1] * y[2] + x[2] * y[1], x[1] * y[1]>>}}) :
                   x \in {The({<<Abs(w[1]) \div 4096, Abs(w[1]) % 4096, w[2]>> :
                               w \in {Widened(p[1])}})},
                   y \in {The({<<Abs(w[1]) \div 4096, Abs(w[1]) % 4096, w[2]>> :
                               w \in {Widened(p[2])}})}}) :
         p \in {<<a, b>>}})

\* the float comparison a < b
Lt32(a, b) == The({d[1] < 0 : d \in {Sub32(a, b)}})

\* int16_t arithmetic: the result of an int computation stored back into 16 bits
Wrap16(x) == ((x + 32768) % 65536) - 32768

\* the int16_t whose low byte is the high byte of x and the reverse
ByteSwap16(x) ==
    LET u == x % 65536
    IN  Wrap16((u % 256) * 256 + (u \div 256))

\* variant: the vector keeps its size
ResizeKept(v, n) == v

\* vector::resize to a size that is not larger
Resize(v, n) == SubSeq(v, 1, n)

(***************************************************************************)
(* utilities.cpp: trim_gyro_data.                                          *)
(* An iterator is an index: data.begin() is 1 and data.end() is            *)
(* Len(data) + 1; a read at an index outside 1..Len(data) is out of range. *)
(***************************************************************************)
\* float threshold = 0.00001
TRIM_THRESHOLD == Rat(1, 100000)
\* the float it is
TRIM_THRESHOLD32 == Float32(TRIM_THRESHOLD)

\* std::abs(value) <= threshold for one axis of a sample
AtMostThreshold(value) == AbsLe32(value, TRIM_THRESHOLD32)

\* the condition of both scanning loops: no axis of the sample exceeds the threshold
Inactive(point) ==
    /\ AtMostThreshold(point[1])
    /\ AtMostThreshold(point[2])
    /\ AtMostThreshold(point[3])

\* the first loop, from ptr on: the index it stops at, Len(data) + 1 when it
\* has walked over every sample and reads *data.end()
RECURSIVE ScanForward(_, _)
ScanForward(data, ptr) ==
    IF ptr > Len(data) THEN ptr
    ELSE IF Inactive(data[ptr]) THEN ScanForward(data, ptr + 1)
    ELSE ptr

\* the second loop, from ptr down: the index it stops at, 0 when it reads
\* before data.begin()
RECURSIVE ScanBackward(_, _)
ScanBackward(data, ptr) ==
    IF ptr < 1 THEN ptr
    ELSE IF Inactive(data[ptr]) THEN ScanBackward(data, ptr - 1)
    ELSE ptr

\* the copy loop: the data and both iterators when it ends
RECURSIVE ShiftLoop(_, _, _, _)
ShiftLoop(data, replace_ptr, lptr, rptr) ==
    IF replace_ptr # lptr /\ lptr <= rptr
    THEN ShiftLoop([data EXCEPT ![replace_ptr] = data[lptr]],
                   replace_ptr + 1, lptr + 1, rptr)
    ELSE [data |-> data, replace_ptr |-> replace_ptr, lptr |-> lptr]

\* variant: only the leading inactive samples are dropped
TrimActiveLeftOnly(data, left) == SubSeq(data, left, Len(data))

\* lines 112-133, for a left bound found inside the data
TrimActive(data, left) ==
    LET rptr == ScanBackward(data, Len(data))
        s == ShiftLoop(data, 1, left, rptr)
    IN  IF s.lptr > rptr
        THEN SubSeq(s.data, 1, s.replace_ptr - 1)
        ELSE SubSeq(s.data, 1, rptr)

\* What the overrun of the first loop can end in.  The loop has no bound:
\* with no active sample it reads *data.end() and whatever lies behind it.
\*   "returned": the value at data.end() reads as active, ptr == data.end()
\*               and the function returns with the data as they were;
\*   "erased":   a value further behind reads as active, the second loop runs
\*               below data.begin(), lptr > rptr and everything is erased;
\*   "fault":    the walk leaves the mapped memory and the thread stops.
OverrunEnds == {"returned", "erased", "fault"}

\* trim_gyro_data: the results the build can produce, each with the data left
\* in the vector, whether a read was out of range and whether the call faulted
trim_gyro_data(data) ==
    LET left == ScanForward(data, 1)
    IN  IF left <= Len(data)
        THEN {[data |-> TrimActive(data, left), out_of_range |-> FALSE, fault |-> FALSE]}
        ELSE {[data |-> IF e = "erased" THEN <<>> ELSE data,
               out_of_range |-> TRUE,
               fault |-> (e = "fault")] : e \in OverrunEnds}

(***************************************************************************)
(* main.cpp: normalize and movingAverageFilter.                            *)
(***************************************************************************)
\* main.cpp 491: sqrt(point[0] * point[0] + point[1] * point[1] + point[2] *
\* point[2]), each product, each sum and the root rounded
Magnitude(point) ==
    The({IF s = Zero32 THEN Zero32 ELSE Sqrt32(s) :
         s \in {Add32(Add32(Mul32(point[1], point[1]), Mul32(point[2], point[2])),
                      Mul32(point[3], point[3]))}})

\* main.cpp 490-497: one point of normalize, each axis divided by the
\* magnitude when that is above 0
NormalizePoint(point) ==
    The({The({IF magnitude = Zero32 THEN x
              ELSE <<Div32(x[1], magnitude), Div32(x[2], magnitude),
                     Div32(x[3], magnitude)>> :
              magnitude \in {Magnitude(x)}}) :
         x \in {point}})

RECURSIVE normalize(_)
normalize(data) ==
    IF data = <<>> THEN <<>>
    ELSE Append(normalize(SubSeq(data, 1, Len(data) - 1)),
                NormalizePoint(data[Len(data)]))

\* variant: the entry that is overwritten is not taken out of the sum
movingAverageFilterKeepsOld(new_value, buffer, index, sum) ==
    The({[buffer |-> [buffer EXCEPT ![index + 1] = v],
          index |-> (index + 1) % WINDOW_SIZE,
          sum |-> sum2,
          out |-> FDiv(sum2, F(WINDOW_SIZE))] :
         v \in {new_value}, sum2 \in {FAdd(sum, new_value)}})

\* one push: buffer is the window (index counts from 0), the result holds the
\* new window, index and sum and the value returned
movingAverageFilter(new_value, buffer, index, sum) ==
    The({[buffer |-> [buffer EXCEPT ![index + 1] = v],
          index |-> (index + 1) % WINDOW_SIZE,
          sum |-> sum2,
          out |-> FDiv(sum2, F(WINDOW_SIZE))] :
         v \in {new_value}, sum2 \in {FAdd(FSub(sum, buffer[index + 1]), new_value)}})

\* the same push on the floats themselves: each of the three operations
\* of main.cpp 482-486 rounds its result
movingAverageFilter32(new_value, buffer, index, sum) ==
    The({[buffer |-> [buffer EXCEPT ![index + 1] = v],
          index |-> (index + 1) % WINDOW_SIZE,
          sum |-> sum2,
          out |-> DivInt32(sum2, WINDOW_SIZE)] :
         v \in {new_value}, sum2 \in {Add32(Sub32(sum, buffer[index + 1]), new_value)}})

(***************************************************************************)
(* utilities.cpp: correlation and calculateCorrelationVectors.             *)
(* A correlation on floats is the float returned, or NaN.  A correlation   *)
(* in exact arithmetic is kept as its numerator and the radicand of its    *)
(* denominator: its value is num / sqrt(rad).                              *)
(***************************************************************************)
NaN32 == [nan |-> TRUE, val |-> Zero32]

\* lines 57-63: some pair of values is not zero
HasVariation32(a, b) == \E i \in 1..Len(a) : a[i] # Zero32 \/ b[i] # Zero32

\* lines 67-79: one iteration of the loop on the pair of values a_i, b_i,
\* acc the five running sums
CorrelationStep32(acc, a_i, b_i) ==
    The({[sum_a |-> Add32(acc.sum_a, delta_a),
          sum_b |-> Add32(acc.sum_b, delta_b),
          sum_ab |-> Add32(acc.sum_ab, Mul32(delta_a, delta_b)),
          sq_sum_a |-> Add32(acc.sq_sum_a, Mul32(a_i, a_i)),
          sq_sum_b |-> Add32(acc.sq_sum_b, Mul32(b_i, b_i))] :
         delta_a \in {Sub32(a_i, acc.sum_a)}, delta_b \in {Sub32(b_i, acc.sum_b)}})

\* the loop from index i on
RECURSIVE CorrelationLoop32(_, _, _, _)
CorrelationLoop32(a, b, i, acc) ==
    IF i > Len(a) THEN acc
    ELSE The({CorrelationLoop32(a, b, i + 1, next) :
              next \in {CorrelationStep32(acc, a[i], b[i])}})

\* line 83, n the float of a.size()
CorrelationNumerator32(acc, n) ==
    Sub32(acc.sum_ab, Div32(Mul32(acc.sum_a, acc.sum_b), n))

\* lines 84-86, the argument of sqrt
CorrelationRadicand32(acc, n) ==
    Mul32(Sub32(acc.sq_sum_a, Div32(Mul32(acc.sum_a, acc.sum_a), n)),
          Sub32(acc.sq_sum_b, Div32(Mul32(acc.sum_b, acc.sum_b), n)))

\* lines 84-92: NaN for a denominator of 0 and for the root of a negative
\* number, else the quotient
CorrelationValue32(acc, n) ==
    The({IF radicand[1] <= 0 THEN NaN32
         ELSE [nan |-> FALSE, val |-> Div32(numerator, Sqrt32(radicand))] :
         numerator \in {CorrelationNumerator32(acc, n)},
         radicand \in {CorrelationRadicand32(acc, n)}})

\* utilities.cpp 51-93 on floats
correlation32(a, b) ==
    IF Len(a) # Len(b) THEN NaN32
    ELSE IF ~HasVariation32(a, b) THEN NaN32
    ELSE The({CorrelationValue32(acc, Canon(Len(a), 0)) :
              acc \in {CorrelationLoop32(a, b, 1,
                          [sum_a |-> Zero32, sum_b |-> Zero32, sum_ab |-> Zero32,
                           sq_sum_a |-> Zero32, sq_sum_b |-> Zero32])}})

NaN == [nan |-> TRUE, num |-> FZero, rad |-> FZero]

\* lines 57-63: some pair of values is not exactly zero
HasVariation(a, b) == \E i \in 1..Len(a) : a[i] # FZero \/ b[i] # FZero

\* lines 67-79 in exact arithmetic: one iteration on the pair of values
\* a_i, b_i, acc the five running sums
CorrelationStep(acc, a_i, b_i) ==
    The({[sum_a |-> FAdd(acc.sum_a, delta_a),
          sum_b |-> FAdd(acc.sum_b, delta_b),
          sum_ab |-> FAdd(acc.sum_ab, FMul(delta_a, delta_b)),
          sq_sum_a |-> FAdd(acc.sq_sum_a, FMul(a_i, a_i)),
          sq_sum_b |-> FAdd(acc.sq_sum_b, FMul(b_i, b_i))] :
         delta_a \in {FSub(a_i, acc.sum_a)}, delta_b \in {FSub(b_i, acc.sum_b)}})

RECURSIVE CorrelationLoop(_, _, _, _)
CorrelationLoop(a, b, i, acc) ==
    IF i > Len(a) THEN acc
    ELSE The({CorrelationLoop(a, b, i + 1, next) :
              next \in {CorrelationStep(acc, a[i], b[i])}})

\* line 83
CorrelationNumerator(acc, n) ==
    FSub(acc.sum_ab, FDiv(FMul(acc.sum_a, acc.sum_b), n))

\* lines 84-86, the argument of sqrt
CorrelationRadicand(acc, n) ==
    FMul(FSub(acc.sq_sum_a, FDiv(FMul(acc.sum_a, acc.sum_a), n)),
         FSub(acc.sq_sum_b, FDiv(FMul(acc.sum_b, acc.sum_b), n)))

\* lines 88-92: NaN for a denominator of 0, else the quotient
CorrelationValue(acc, n) ==
    The({IF ~FLt(FZero, radicand) THEN NaN
         ELSE [nan |-> FALSE, num |-> numerator, rad |-> radicand] :
         numerator \in {CorrelationNumerator(acc, n)},
         radicand \in {CorrelationRadicand(acc, n)}})

\* utilities.cpp 51-93 in exact arithmetic: the value numerator /
\* sqrt(radicand), NaN when the denominator is 0 (or the root of a negative
\* number)
correlation(a, b) ==
    IF Len(a) # Len(b) THEN NaN
    ELSE IF ~HasVariation(a, b) THEN NaN
    ELSE The({CorrelationValue(acc, F(Len(a))) :
              acc \in {CorrelationLoop(a, b, 1,
                          [sum_a |-> FZero, sum_b |-> FZero, sum_ab |-> FZero,
                           sq_sum_a |-> FZero, sq_sum_b |-> FZero])}})

AxisOf(vec, i) == [j \in 1..Len(vec) |-> vec[j][i]]

\* the two vectors as the call leaves them (resized to the shorter) and the
\* three correlations
calculateCorrelationVectors(vec1, vec2) ==
    LET min_size == Min(Len(vec1), Len(vec2))
        v1 == IF Len(vec1) # Len(vec2) THEN Resize(vec1, min_size) ELSE vec1
        v2 == IF Len(vec1) # Len(vec2) THEN Resize(vec2, min_size) ELSE vec2
    IN  [vec1 |-> v1, vec2 |-> v2,
         result |-> <<correlation32(AxisOf(v1, 1), AxisOf(v2, 1)),
                      correlation32(AxisOf(v1, 2), AxisOf(v2, 2)),
                      correlation32(AxisOf(v1, 3), AxisOf(v2, 3))>>]

\* main.cpp 356: correlationResult[i] > CORRELATION_THRESHOLD for the float
\* c and the threshold t, a number that is a float; false for NaN
Exceeds(c, t) == ~c.nan /\ Lt32(Float32(t), c.val)

(***************************************************************************)
(* gyro.cpp: calibration and conditioning.                                 *)
(***************************************************************************)
\* one iteration of the burst loop: the int16_t sums and the thresholds after
\* one more reading
CalibrateStep(acc, reading) ==
    [sum |-> <<Wrap16(acc.sum[1] + reading[1]),
               Wrap16(acc.sum[2] + reading[2]),
               Wrap16(acc.sum[3] + reading[3])>>,
     threshold |-> <<Max(acc.threshold[1], reading[1]),
                     Max(acc.threshold[2], reading[2]),
                     Max(acc.threshold[3], reading[3])>>]

\* the burst loop over the samples lo..hi, one iteration after the other; the
\* range is cut in halves to keep the evaluation shallow, and the singleton
\* set binds the first half's result to a value before the second starts
RECURSIVE CalibrateLoop(_, _, _, _)
CalibrateLoop(burst, lo, hi, acc) ==
    IF lo > hi THEN acc
    ELSE IF lo = hi THEN CalibrateStep(acc, burst[lo])
    ELSE LET mid == (lo + hi) \div 2
         IN  CHOOSE r \in {CalibrateLoop(burst, mid + 1, hi, first) :
                              first \in {CalibrateLoop(burst, lo, mid, acc)}} : TRUE

\* CalibrateGyroscope on the 128 readings of burst, from the thresholds the
\* globals hold: the new thresholds and zero-rate samples
CalibrateGyroscope(burst, threshold) ==
    The({[threshold |-> r.threshold,
          sample |-> <<r.sum[1] \div (2 ^ CALIBRATION_SHIFT),
                       r.sum[2] \div (2 ^ CALIBRATION_SHIFT),
                       r.sum[3] \div (2 ^ CALIBRATION_SHIFT)>>] :
         r \in {CalibrateLoop(burst, 1, CALIBRATION_SAMPLES,
                              [sum |-> <<0, 0, 0>>, threshold |-> threshold])}})

\* GetCalibratedRawData on one reading
CalibratedRawData(reading, sample, threshold) ==
    LET gated(k) == LET v == Wrap16(reading[k] - sample[k])
                    IN  IF Abs(v) < Abs(threshold[k]) THEN 0 ELSE v
    IN  <<gated(1), gated(2), gated(3)>>

\* gyro.cpp 113-116, in exact arithmetic
ConvertToDPS(axis_data, sens) == FMul(F(axis_data), sens)

\* gyro.cpp 113-116: the float product of the count and the float sensitivity
ConvertToDPS32(axis_data, sens) == MulInt32(axis_data, sens)

(***************************************************************************)
(* system_config.h (not among the sources): the event flag bits, the       *)
(* full-scale selectors with their sensitivities, and the threshold.       *)
(***************************************************************************)
KEY_FLAG == "KEY_FLAG"
UNLOCK_FLAG == "UNLOCK_FLAG"
ERASE_FLAG == "ERASE_FLAG"
DATA_READY_FLAG == "DATA_READY_FLAG"

FULL_SCALE_245 == "FULL_SCALE_245"
FULL_SCALE_500 == "FULL_SCALE_500"
FULL_SCALE_2000 == "FULL_SCALE_2000"
FULL_SCALE_2000_ALT == "FULL_SCALE_2000_ALT"
\* degrees per second per count
SENSITIVITY_245 == Rat(7, 800)
SENSITIVITY_500 == Rat(7, 400)
SENSITIVITY_2000 == Rat(7, 100)
\* the float behind a value of sensitivity: that of the literal, 0.00875f,
\* 0.0175f or 0.07f, or 0
SensitivityFloat(s) ==
    CASE s = SENSITIVITY_245 -> <<9395241, -30>>
      [] s = SENSITIVITY_500 -> <<9395241, -29>>
      [] s = SENSITIVITY_2000 -> <<9395241, -27>>
      [] OTHER -> Float32(s)

\* a value in (0, 1)
CORRELATION_THRESHOLD == Rat(1, 2)

(***************************************************************************)
(* The state.                                                              *)
(***************************************************************************)
VARIABLES
    flags,              \* EventFlags flags: the set of the bits that are set
    pc,                 \* where gyroscope_thread is
    flag_check,         \* gyroscope_thread: what flags.wait_any returned
    temp_key,           \* gyroscope_thread: the sequence being recorded
    display_buffer,     \* gyroscope_thread: the message last written
    correlationResult,  \* gyroscope_thread: the last three correlations
    gesture_key,        \* the stored key
    unlocking_record,   \* the attempt
    led_status_green,
    led_status_red,
    gyro_buffer_f,      \* gyro_buffer_x, _y, _z: one window of floats per axis
    gyro_sum_f,         \* gyro_sum_x, _y, _z: the float sums
    gyro_index,         \* gyro_index_x, _y, _z
    gyro_buffer,        \* the windows in exact arithmetic
    gyro_sum,           \* the sums in exact arithmetic
    xyz_threshold,      \* x_threshold, y_threshold, z_threshold
    xyz_sample,         \* x_sample, y_sample, z_sample
    sensitivity,
    raw_data,           \* gyroscope_thread's Gyroscope_RawData, *gyro_raw
    powered,            \* the sensor's CTRL_REG_1 holds POWERON
    trim_out_of_range,  \* the last trim_gyro_data read outside its vector
    key_history,        \* history of the stored key: "none", "saved", or
                        \* "saved_erased" (a save, then an erase, no save since)
    call_input,         \* the arguments of an operation that is applied on its
                        \* own; <<>> while the program runs
    compared,           \* the lengths of the key and the attempt at the last
                        \* comparison, and of the two sequences correlation got
    touches,            \* touches of the two buttons so far
    gesture_axis,       \* the axis the device is turned about
    byte_order          \* which of the two SPI reads of a 16-bit value the
                        \* build does first: "low_first" or "high_first"

thread_vars == <<pc, flag_check, temp_key, display_buffer, correlationResult>>
key_vars == <<gesture_key, unlocking_record>>
led_vars == <<led_status_green, led_status_red>>
filter_vars == <<gyro_buffer_f, gyro_sum_f, gyro_index, gyro_buffer, gyro_sum>>
gyro_vars == <<xyz_threshold, xyz_sample, sensitivity, raw_data, powered>>
env_vars == <<touches, gesture_axis, byte_order>>
history_vars == <<trim_out_of_range, key_history, call_input, compared>>
vars == <<flags, thread_vars, key_vars, led_vars, filter_vars, gyro_vars,
          history_vars, env_vars>>

\* the axes of rotation of the model: two directions with no negative
\* component, one with an axis the device does not turn about
GestureAxes == {<<1, 2, 2>>, <<3, 4, 0>>}

\* the three values the sensor sends at rate k about the gesture axis, each
\* as its low byte followed by its high byte
Sent(k) == <<k * gesture_axis[1], k * gesture_axis[2], k * gesture_axis[3]>>

\* gyro.cpp 42-50: each value is gyroscope.write(0xff) | gyroscope.write(0xff) << 8
\* and the order of the two reads is the build's choice: with the left one
\* first the value is the one sent, with the right one first its bytes are
\* exchanged
ByteOrders == {"low_first", "high_first"}

\* the raw reading at rate k about the gesture axis
Reading(k) ==
    IF byte_order = "low_first" THEN Sent(k)
    ELSE <<ByteSwap16(Sent(k)[1]), ByteSwap16(Sent(k)[2]), ByteSwap16(Sent(k)[3])>>

\* the rates of a recording and the stationary levels of a calibration
\* burst.  With the bytes exchanged only the rates from 0 up and the level 0
\* are taken: their readings are 256 times the values sent.
Rates == IF byte_order = "low_first" THEN (-MaxRate)..MaxRate ELSE 0..MaxRate
Levels == IF byte_order = "low_first" THEN 0..MaxLevel ELSE {0}

Triggers == {KEY_FLAG, UNLOCK_FLAG, ERASE_FLAG}

\* main.cpp 112-125: the key-presence query
KeyPresent == gesture_key # <<>>

(***************************************************************************)
(* main() up to the start of the threads, and gyroscope_thread up to its   *)
(* loop: the sensor is not powered, its interrupt line is pulled down.     *)
(***************************************************************************)
\* everything but the position of the thread, its sequence and the axis
Startup ==
    /\ flags = {}
    /\ flag_check = {}
    /\ display_buffer = ""
    /\ correlationResult = <<NaN32, NaN32, NaN32>>
    /\ gesture_key = <<>>
    /\ unlocking_record = <<>>
    /\ led_status_green = 1
    /\ led_status_red = 0
    /\ gyro_buffer_f = [k \in Axes |-> [i \in 1..WINDOW_SIZE |-> Zero32]]
    /\ gyro_sum_f = [k \in Axes |-> Zero32]
    /\ gyro_index = [k \in Axes |-> 0]
    /\ gyro_buffer = [k \in Axes |-> [i \in 1..WINDOW_SIZE |-> FZero]]
    /\ gyro_sum = [k \in Axes |-> FZero]
    /\ xyz_threshold = <<0, 0, 0>>
    /\ xyz_sample = <<0, 0, 0>>
    /\ sensitivity = FZero
    /\ raw_data = <<0, 0, 0>>
    /\ powered = FALSE
    /\ trim_out_of_range = FALSE
    /\ key_history = "none"
    /\ compared = <<>>
    /\ touches = 0

Init ==
    /\ Startup
    /\ call_input = <<>>
    /\ pc = "Start"
    /\ temp_key = <<>>
    /\ gesture_axis \in GestureAxes
    /\ byte_order \in ByteOrders

(***************************************************************************)
(* The interrupt handlers and touch_screen_thread.                         *)
(***************************************************************************)
\* main.cpp 59-62
button_press ==
    /\ flags' = flags \cup {ERASE_FLAG}
    /\ UNCHANGED <<thread_vars, key_vars, led_vars, filter_vars, gyro_vars,
                   history_vars, env_vars>>

\* main.cpp 63-66: the sensor raises its data-ready line
onGyroDataReady ==
    /\ powered
    /\ flags' = flags \cup {DATA_READY_FLAG}
    /\ UNCHANGED <<thread_vars, key_vars, led_vars, filter_vars, gyro_vars,
                   history_vars, env_vars>>

\* main.cpp 420-429: a touch inside the RECORD button
TouchRecord ==
    /\ touches < MaxTouches
    /\ touches' = touches + 1
    /\ flags' = flags \cup {KEY_FLAG}
    /\ UNCHANGED <<thread_vars, key_vars, led_vars, filter_vars, gyro_vars,
                   history_vars, gesture_axis, byte_order>>

\* main.cpp 432-441: a touch inside the UNLOCK button
TouchUnlock ==
    /\ touches < MaxTouches
    /\ touches' = touches + 1
    /\ flags' = flags \cup {UNLOCK_FLAG}
    /\ UNCHANGED <<thread_vars, key_vars, led_vars, filter_vars, gyro_vars,
                   history_vars, gesture_axis, byte_order>>

(***************************************************************************)
(* gyroscope_thread, one action per stretch between two points where the   *)
(* thread waits, sleeps or can be observed by the other threads.           *)
(***************************************************************************)
\* main.cpp 163-167: at its start the thread reads the interrupt line and
\* sets the data-ready flag itself when the line is already high
ThreadStart ==
    /\ pc = "Start"
    /\ \E line \in {0, 1} :
          flags' = IF DATA_READY_FLAG \notin flags /\ line = 1
                   THEN flags \cup {DATA_READY_FLAG}
                   ELSE flags
    /\ pc' = "Idle"
    /\ UNCHANGED <<flag_check, temp_key, display_buffer, correlationResult, key_vars,
                   led_vars, filter_vars, gyro_vars, history_vars, env_vars>>

\* vector::clear()
\* variant: the erase leaves the vector as it was
ClearedKept(v) == v

Cleared(v) == <<>>

\* variant: the filter starts every session from zeroed windows
WaitAnyResets ==
    /\ pc = "Idle"
    /\ flags \cap Triggers # {}
    /\ flag_check' = flags
    /\ flags' = flags \ Triggers
    /\ temp_key' = <<>>
    /\ IF ERASE_FLAG \in flags
       THEN /\ gesture_key' = Cleared(gesture_key)
            /\ unlocking_record' = Cleared(unlocking_record)
            /\ led_status_green' = 1
            /\ led_status_red' = 0
            /\ key_history' = IF key_history = "none" THEN "none" ELSE "saved_erased"
       ELSE UNCHANGED <<gesture_key, unlocking_record, led_vars, key_history>>
    /\ display_buffer' = IF flags \cap {KEY_FLAG, UNLOCK_FLAG} # {} THEN "Hold On"
                         ELSE IF ERASE_FLAG \in flags THEN "Key Erased."
                         ELSE display_buffer
    /\ pc' = IF flags \cap {KEY_FLAG, UNLOCK_FLAG} # {} THEN "Calibrating" ELSE "Idle"
    /\ gyro_buffer_f' = [k \in Axes |-> [i \in 1..WINDOW_SIZE |-> Zero32]]
    /\ gyro_sum_f' = [k \in Axes |-> Zero32]
    /\ gyro_index' = [k \in Axes |-> 0]
    /\ gyro_buffer' = [k \in Axes |-> [i \in 1..WINDOW_SIZE |-> FZero]]
    /\ gyro_sum' = [k \in Axes |-> FZero]
    /\ UNCHANGED <<correlationResult, gyro_vars, trim_out_of_range, call_input,
                   compared, env_vars>>

\* main.cpp 169-208: the thread leaves flags.wait_any with the flags as they
\* were, the three it waited for are cleared, an erase is handled, and for a
\* record or an unlock the thread shows "Hold On" and sleeps 1 s
WaitAny ==
    /\ pc = "Idle"
    /\ flags \cap Triggers # {}
    /\ flag_check' = flags
    /\ flags' = flags \ Triggers
    /\ temp_key' = <<>>
    /\ IF ERASE_FLAG \in flags
       THEN /\ gesture_key' = Cleared(gesture_key)
            /\ unlocking_record' = Cleared(unlocking_record)
            /\ led_status_green' = 1
            /\ led_status_red' = 0
            /\ key_history' = IF key_history = "none" THEN "none" ELSE "saved_erased"
       ELSE UNCHANGED <<gesture_key, unlocking_record, led_vars, key_history>>
    /\ display_buffer' = IF flags \cap {KEY_FLAG, UNLOCK_FLAG} # {} THEN "Hold On"
                         ELSE IF ERASE_FLAG \in flags THEN "Key Erased."
                         ELSE display_buffer
    /\ pc' = IF flags \cap {KEY_FLAG, UNLOCK_FLAG} # {} THEN "Calibrating" ELSE "Idle"
    /\ UNCHANGED <<correlationResult, filter_vars, gyro_vars, trim_out_of_range, call_input,
                   compared, env_vars>>

\* gyro.cpp 90-107: the sensitivity after the switch on conf4
SensitivityOf(conf4, old) ==
    CASE conf4 = FULL_SCALE_245 -> SENSITIVITY_245
      [] conf4 = FULL_SCALE_500 -> SENSITIVITY_500
      [] conf4 = FULL_SCALE_2000 -> SENSITIVITY_2000
      [] conf4 = FULL_SCALE_2000_ALT -> SENSITIVITY_2000
      [] OTHER -> old

\* main.cpp 153-157
init_parameters == [conf4 |-> FULL_SCALE_500]

\* main.cpp 210-218 and gyro.cpp 79-107: the thread wakes from the sleep and
\* shows "Calibrating...", InitiateGyroscope powers the sensor on and sets the
\* sensitivity, and CalibrateGyroscope is at the top of its burst loop
PowerOn ==
    /\ pc = "Calibrating"
    /\ display_buffer' = "Calibrating..."
    /\ sensitivity' = SensitivityOf(init_parameters.conf4, sensitivity)
    /\ powered' = TRUE
    /\ pc' = "Burst"
    /\ UNCHANGED <<flags, flag_check, temp_key, correlationResult, key_vars,
                   led_vars, filter_vars, xyz_threshold, xyz_sample, raw_data,
                   history_vars, env_vars>>

\* gyro.cpp 61-70: the first reading of the burst, of a device at rest at one
\* level: the thresholds are raised to it and the thread spins in
\* wait_us(10000).  The sums are locals of CalibrateGyroscope.
BurstReading ==
    /\ pc = "Burst"
    /\ \E level \in Levels :
          /\ raw_data' = Reading(level)
          /\ xyz_threshold' =
                CalibrateStep([sum |-> <<0, 0, 0>>, threshold |-> xyz_threshold],
                              Reading(level)).threshold
    /\ pc' = "BurstWait"
    /\ UNCHANGED <<flags, flag_check, temp_key, display_buffer, correlationResult,
                   key_vars, led_vars, filter_vars, xyz_sample, sensitivity, powered,
                   history_vars, env_vars>>

\* gyro.cpp 61-75 and main.cpp 221-228: the other readings of the burst, each
\* the same as the first and followed by its wait_us (they leave the
\* thresholds and raw_data as the first did), then the loop ends, the
\* zero-rate samples are set from the sums of the 128 readings, and the
\* countdown shows its first message and sleeps 1 s
Calibrate ==
    /\ pc = "BurstWait"
    /\ \E burst \in {[i \in 1..CALIBRATION_SAMPLES |-> raw_data]} :
       \E c \in {CalibrateGyroscope(burst, xyz_threshold)} :
          /\ xyz_threshold' = c.threshold
          /\ xyz_sample' = c.sample
    /\ display_buffer' = "Recording in 3..."
    /\ pc' = "Countdown"
    /\ UNCHANGED <<flags, flag_check, temp_key, correlationResult, key_vars,
                   led_vars, filter_vars, sensitivity, raw_data, powered,
                   history_vars, env_vars>>

\* main.cpp 221-238: the thread wakes from one of the three sleeps of the
\* countdown; it shows the next message and sleeps again, or after the third
\* shows "Recording..." and starts the timer
Countdown ==
    /\ pc = "Countdown"
    /\ display_buffer' = CASE display_buffer = "Recording in 3..." -> "Recording in 2..."
                           [] display_buffer = "Recording in 2..." -> "Recording in 1..."
                           [] display_buffer = "Recording in 1..." -> "Recording..."
    /\ pc' = IF display_buffer = "Recording in 1..." THEN "Recording" ELSE "Countdown"
    /\ UNCHANGED <<flags, flag_check, temp_key, correlationResult, key_vars,
                   led_vars, filter_vars, gyro_vars, history_vars, env_vars>>

\* main.cpp 239: the timer is read below 3 s and the loop body is entered (at
\* least once: the timer has just been started)
LoopEnter ==
    /\ pc = "Recording"
    /\ Len(temp_key) < MaxSamples
    /\ pc' = "DataWait"
    /\ UNCHANGED <<flags, flag_check, temp_key, display_buffer, correlationResult,
                   key_vars, led_vars, filter_vars, gyro_vars, history_vars,
                   env_vars>>

\* main.cpp 245-250: the push of axis a of the conditioned reading cal, in
\* exact arithmetic and on the floats
FilteredAxis(cal, a) ==
    movingAverageFilter(ConvertToDPS(cal[a], sensitivity),
                        gyro_buffer[a], gyro_index[a], gyro_sum[a])
FilteredAxis32(cal, a) ==
    movingAverageFilter32(ConvertToDPS32(cal[a], SensitivityFloat(sensitivity)),
                          gyro_buffer_f[a], gyro_index[a], gyro_sum_f[a])

\* main.cpp 241-253: flags.wait_all(DATA_READY_FLAG) returns and clears the
\* flag, one reading is conditioned, filtered per axis and appended, and the
\* thread sleeps 50 ms
RecordSample ==
    /\ pc = "DataWait"
    /\ DATA_READY_FLAG \in flags
    /\ flags' = flags \ {DATA_READY_FLAG}
    /\ \E k \in Rates :
          \E cal \in {CalibratedRawData(Reading(k), xyz_sample, xyz_threshold)} :
          \E f \in {<<FilteredAxis(cal, 1), FilteredAxis(cal, 2), FilteredAxis(cal, 3)>>},
             g \in {<<FilteredAxis32(cal, 1), FilteredAxis32(cal, 2),
                      FilteredAxis32(cal, 3)>>} :
              /\ raw_data' = cal
              /\ gyro_buffer_f' = <<g[1].buffer, g[2].buffer, g[3].buffer>>
              /\ gyro_sum_f' = <<g[1].sum, g[2].sum, g[3].sum>>
              /\ gyro_index' = <<g[1].index, g[2].index, g[3].index>>
              /\ gyro_buffer' = <<f[1].buffer, f[2].buffer, f[3].buffer>>
              /\ gyro_sum' = <<f[1].sum, f[2].sum, f[3].sum>>
              /\ temp_key' = Append(temp_key, <<g[1].out, g[2].out, g[3].out>>)
    /\ pc' = "Recording"
    /\ UNCHANGED <<flag_check, display_buffer, correlationResult, key_vars,
                   led_vars, xyz_threshold, xyz_sample, sensitivity, powered,
                   history_vars, env_vars>>

\* main.cpp 239, 255-256: the timer is read at 3 s or more, the loop ends
LoopExit ==
    /\ pc = "Recording"
    /\ Len(temp_key) >= 1
    /\ pc' = "Trimming"
    /\ UNCHANGED <<flags, flag_check, temp_key, display_buffer, correlationResult,
                   key_vars, led_vars, filter_vars, gyro_vars, history_vars,
                   env_vars>>

\* variant: the branch after the trim reads the pending flags again
TrimByPending ==
    /\ pc = "Trimming"
    /\ \E t \in trim_gyro_data(temp_key) :
          /\ temp_key' = t.data
          /\ trim_out_of_range' = t.out_of_range
          /\ pc' = IF t.fault THEN "Fault"
                   ELSE IF KEY_FLAG \in flags \cup flag_check THEN "SaveKey"
                   ELSE "CompareKey"
          /\ display_buffer' = IF t.fault THEN display_buffer ELSE "Finished..."
    /\ UNCHANGED <<flags, flag_check, correlationResult, key_vars, led_vars,
                   filter_vars, gyro_vars, key_history, call_input, compared,
                   env_vars>>

\* main.cpp 258-269, 315: trim_gyro_data(temp_key), then the branch on flag_check
Trim ==
    /\ pc = "Trimming"
    /\ \E t \in trim_gyro_data(temp_key) :
          /\ temp_key' = t.data
          /\ trim_out_of_range' = t.out_of_range
          /\ pc' = IF t.fault THEN "Fault"
                   ELSE IF KEY_FLAG \in flag_check THEN "SaveKey"
                   ELSE "CompareKey"
          /\ display_buffer' = IF t.fault THEN display_buffer ELSE "Finished..."
    /\ UNCHANGED <<flags, flag_check, correlationResult, key_vars, led_vars,
                   filter_vars, gyro_vars, key_history, call_input, compared,
                   env_vars>>

\* main.cpp 271-290: no key is stored, the recorded sequence is saved
SaveKey ==
    /\ pc = "SaveKey"
    /\ gesture_key = <<>>
    /\ gesture_key' = temp_key
    /\ temp_key' = <<>>
    /\ led_status_red' = 1
    /\ led_status_green' = 0
    /\ display_buffer' = "Key saved."
    /\ key_history' = "saved"
    /\ pc' = "Idle"
    /\ UNCHANGED <<flags, flag_check, correlationResult, unlocking_record,
                   filter_vars, gyro_vars, trim_out_of_range, call_input, compared,
                   env_vars>>

\* variant: a stored key is kept and the new sequence is dropped
RemoveOldKeyKept ==
    /\ pc = "SaveKey"
    /\ gesture_key # <<>>
    /\ display_buffer' = "Removing old key..."
    /\ pc' = "Idle"
    /\ UNCHANGED <<flags, flag_check, temp_key, correlationResult, key_vars,
                   led_vars, filter_vars, gyro_vars, history_vars, env_vars>>

\* main.cpp 291-299: a key is stored; the thread sleeps 1 s before replacing it
RemoveOldKey ==
    /\ pc = "SaveKey"
    /\ gesture_key # <<>>
    /\ display_buffer' = "Removing old key..."
    /\ pc' = "ClearKey"
    /\ UNCHANGED <<flags, flag_check, temp_key, correlationResult, key_vars,
                   led_vars, filter_vars, gyro_vars, history_vars, env_vars>>

\* main.cpp 301: gesture_key.clear()
ClearKey ==
    /\ pc = "ClearKey"
    /\ gesture_key' = <<>>
    /\ pc' = "AssignKey"
    /\ UNCHANGED <<flags, flag_check, temp_key, display_buffer, correlationResult,
                   unlocking_record, led_vars, filter_vars, gyro_vars,
                   history_vars, env_vars>>

\* main.cpp 302-312: gesture_key = temp_key
AssignKey ==
    /\ pc = "AssignKey"
    /\ gesture_key' = temp_key
    /\ temp_key' = <<>>
    /\ display_buffer' = "New key saved."
    /\ key_history' = "saved"
    /\ led_status_red' = 1
    /\ led_status_green' = 0
    /\ pc' = "Idle"
    /\ UNCHANGED <<flags, flag_check, correlationResult, unlocking_record,
                   filter_vars, gyro_vars, trim_out_of_range, call_input, compared,
                   env_vars>>

\* main.cpp 355-361: the number of axes over the threshold
UnlockCount(result) == Cardinality({i \in Axes : Exceeds(result[i], CORRELATION_THRESHOLD)})

\* variant: two matching axes are enough
UnlockedTwoAxes(unlock_count) == unlock_count >= 2

\* main.cpp 364: all three axes must match
Unlocked(unlock_count) == unlock_count = 3

\* main.cpp 343-352: both sequences cut to the shorter, normalized and
\* correlated; vec1 is the stored key and vec2 the attempt as they are left
CompareVectors(key, record) ==
    LET target_size == Min(Len(key), Len(record))
    IN  The({calculateCorrelationVectors(vec1, vec2) :
             vec1 \in {normalize(Resize(key, target_size))},
             vec2 \in {normalize(Resize(record, target_size))}})

\* main.cpp 315-389: the attempt is compared with the stored key
CompareKey ==
    /\ pc = "CompareKey"
    /\ flags' = flags \ {UNLOCK_FLAG}
    /\ temp_key' = <<>>
    /\ unlocking_record' = <<>>
    /\ IF gesture_key = <<>>
       THEN /\ display_buffer' = "NO KEY SAVED."
            /\ led_status_green' = 1
            /\ led_status_red' = 0
            /\ UNCHANGED <<gesture_key, correlationResult, compared>>
       ELSE \E c \in {CompareVectors(gesture_key, temp_key)} :
            \E result \in {c.result} :
                /\ gesture_key' = c.vec1
                /\ compared' = [key |-> Len(gesture_key), attempt |-> Len(temp_key),
                                a |-> Len(AxisOf(c.vec1, 1)),
                                b |-> Len(AxisOf(c.vec2, 1))]
                /\ correlationResult' = result
                /\ IF Unlocked(UnlockCount(result))
                   THEN /\ display_buffer' = "UNLOCK: SUCCESS"
                        /\ led_status_green' = 1
                        /\ led_status_red' = 0
                   ELSE /\ display_buffer' = "UNLOCK: FAILED"
                        /\ led_status_green' = 0
                        /\ led_status_red' = 1
    /\ pc' = "Idle"
    /\ UNCHANGED <<flag_check, filter_vars, gyro_vars, trim_out_of_range, key_history,
                   call_input, env_vars>>

gyroscope_thread ==
    \/ ThreadStart
    \/ WaitAny
    \/ PowerOn
    \/ BurstReading
    \/ Calibrate
    \/ Countdown
    \/ LoopEnter
    \/ RecordSample
    \/ LoopExit
    \/ Trim
    \/ SaveKey
    \/ RemoveOldKey
    \/ ClearKey
    \/ AssignKey
    \/ CompareKey

touch_screen_thread == TouchRecord \/ TouchUnlock

Next ==
    \/ gyroscope_thread
    \/ touch_screen_thread
    \/ button_press
    \/ onGyroDataReady

Spec == Init /\ [][Next]_vars

\* the scheduler runs gyroscope_thread whenever it can take a step
FairSpec == Spec /\ WF_vars(gyroscope_thread) /\ WF_vars(onGyroDataReady)

(***************************************************************************)
(* trim_gyro_data on its own: the call of the thread's Trim step applied   *)
(* to every sequence of up to MaxTrimLen samples over TrimPoints.          *)
(***************************************************************************)
\* a sample at rest, one of what rounding leaves of a sum that is 0 in exact
\* arithmetic, one with an axis exactly at the trim threshold, and two
\* active ones
TrimPoints ==
    {<<Zero32, Zero32, Zero32>>,
     <<<<13421773, -53>>, <<-13421773, -52>>, Zero32>>,
     <<TRIM_THRESHOLD32, Zero32, Zero32>>,
     <<<<1, 0>>, Zero32, Zero32>>,
     <<Zero32, Zero32, <<-1, 0>>>>}

RECURSIVE SeqsUpTo(_, _)
SeqsUpTo(S, n) ==
    IF n = 0 THEN {<<>>}
    ELSE LET shorter == SeqsUpTo(S, n - 1)
         IN  shorter \cup {Append(q, x) : q \in shorter, x \in S}

TrimInit ==
    /\ Startup
    /\ pc = "Trimming"
    /\ temp_key \in SeqsUpTo(TrimPoints, MaxTrimLen)
    /\ call_input = temp_key
    /\ gesture_axis = <<1, 2, 2>>
    /\ byte_order = "low_first"

TrimSpec == TrimInit /\ [][Trim]_vars

(***************************************************************************)
(* Properties of the unlock decision, the stored key and the triggers.     *)
(***************************************************************************)
\* The float c is a number strictly above t = <<tn, td>>, read off its
\* digits: m * 2^e > tn / td.  From 1 on (e >= 0) it is above every
\* threshold below 1; below 2^-5 (e < -28) it is above no threshold from
\* 1/32 on.
AboveThreshold(c, t) ==
    /\ ~c.nan
    /\ c.val[1] > 0
    /\ \/ c.val[2] >= 0
       \/ /\ c.val[2] >= -28
          /\ c.val[1] * t[2] > t[1] * (2 ^ (-c.val[2]))

UnlockReported == display_buffer \in {"UNLOCK: SUCCESS", "UNLOCK: FAILED"}

\* C1: an unlock attempt against a stored key reports success exactly when
\* each of the three per-axis correlations is a number strictly above
\* CORRELATION_THRESHOLD; an axis whose correlation is NaN makes it fail.
C1_SuccessIffAllAxesAbove ==
    UnlockReported =>
        /\ (display_buffer = "UNLOCK: SUCCESS") <=>
              (\A i \in Axes : AboveThreshold(correlationResult[i],
                                               CORRELATION_THRESHOLD))
        /\ (\E i \in Axes : correlationResult[i].nan) =>
              display_buffer = "UNLOCK: FAILED"

\* C1: an attempt has been compared with a stored key and has unlocked
C1_Witness ==
    /\ display_buffer = "UNLOCK: SUCCESS"
    /\ led_status_green = 1
    /\ \A i \in Axes : ~correlationResult[i].nan

\* every axis of the key takes two different values
NonDegenerate(key) ==
    \A i \in Axes : \E j, k \in 1..Len(key) : key[j][i] # key[k][i]

\* C2: an attempt whose trimmed sequence is identical to the stored key, the
\* key varying on every axis, unlocks.
C2_IdenticalAttemptUnlocks ==
    [][(pc = "CompareKey" /\ pc' = "Idle" /\ temp_key = gesture_key
            /\ NonDegenerate(gesture_key))
        => display_buffer' = "UNLOCK: SUCCESS"]_vars

\* C3: the stored key changes only in a save or in an erase; an unlock
\* attempt, whatever its outcome, leaves it as it was.
C3_KeyChangesOnlyOnSaveOrErase ==
    [][gesture_key' # gesture_key =>
          \/ pc \in {"SaveKey", "ClearKey", "AssignKey"}
          \/ pc = "Idle" /\ ERASE_FLAG \in flags]_vars

\* C4: a record session ends with the stored key equal to the trimmed
\* sequence it recorded, whether or not a key was stored before; the
\* sequence is not changed between the trim and the assignment.
C4_SavedKeyIsTrimmedSequence ==
    [][(pc \in {"SaveKey", "ClearKey", "AssignKey"}) =>
          (IF pc' = "Idle" THEN gesture_key' = temp_key
                           ELSE temp_key' = temp_key)]_vars

\* C4: a key has been recorded over a key that was stored before
C4_Witness ==
    /\ display_buffer = "New key saved."
    /\ pc = "Idle"
    /\ gesture_key # <<>>
    /\ led_status_red = 1

\* C5: an unlock session run while no key is stored trims and compares
\* without reading out of range or stopping, reports that no key is stored
\* and leaves the key absent.
C5_NoKeyUnlockIsSafe ==
    [][/\ (pc = "Trimming" /\ pc' # "Trimming" /\ KEY_FLAG \notin flag_check
              /\ gesture_key = <<>>)
          => (~trim_out_of_range' /\ pc' = "CompareKey")
       /\ (pc = "CompareKey" /\ pc' = "Idle" /\ gesture_key = <<>>)
          => (display_buffer' = "NO KEY SAVED." /\ gesture_key' = <<>>)]_vars

\* C6: once a saved key has been erased and no key saved since, no key is
\* present and an unlock attempt reports that no key is stored.
C6_ErasedKeyIsAbsent ==
    [][/\ key_history' = "saved_erased" => ~KeyPresent'
       /\ (key_history = "saved_erased" /\ pc = "CompareKey" /\ pc' = "Idle")
          => display_buffer' = "NO KEY SAVED."]_vars

\* C6: a key was saved, then erased, and an unlock attempt has been answered
C6_Witness ==
    /\ key_history = "saved_erased"
    /\ display_buffer = "NO KEY SAVED."
    /\ pc = "Idle"

\* C7: an erase trigger raised in any state is eventually followed by an
\* empty stored key, and the key is empty right after the trigger is handled.
C7_EraseEventuallyClearsKey ==
    /\ (ERASE_FLAG \in flags) ~> (gesture_key = <<>>)
    /\ [][(ERASE_FLAG \in flags /\ ERASE_FLAG \notin flags')
            => gesture_key' = <<>>]_vars

\* C8: a trigger leaves the pending set only at the wake-up of the thread
\* and only for a session that acts on it: an erase with the key cleared, a
\* record alone or with an erase, an unlock when no record is pending.
C8_TriggersNotDropped ==
    [][/\ (ERASE_FLAG \in flags /\ ERASE_FLAG \notin flags')
          => (pc = "Idle" /\ gesture_key' = <<>>)
       /\ (KEY_FLAG \in flags /\ KEY_FLAG \notin flags')
          => (pc = "Idle" /\ pc' = "Calibrating")
       /\ (UNLOCK_FLAG \in flags /\ UNLOCK_FLAG \notin flags')
          => (pc = "Idle" /\ pc' = "Calibrating" /\ KEY_FLAG \notin flags)]_vars

\* C9: while a stored key is being replaced by a recorded sequence, the key
\* another thread can read is the whole old key or the whole new one, never
\* an empty one.
C9_ReplaceNeverShowsEmptyKey ==
    (pc \in {"ClearKey", "AssignKey"} /\ temp_key # <<>>) => KeyPresent

\* a sequence without a sample above the trim threshold
NoActiveSample(data) == \A j \in 1..Len(data) : Inactive(data[j])

\* C10: trim_gyro_data reads only elements of its sequence, returns
\* normally, and leaves a sequence without an active sample with length 0.
C10_TrimStaysInRange ==
    [][(pc = "Trimming") =>
          /\ ~trim_out_of_range'
          /\ pc' # "Fault"
          /\ NoActiveSample(temp_key) => temp_key' = <<>>]_vars

\* C11: a record session whose recording has no active sample leaves the
\* stored key as it was before the session: no step of its save branch
\* changes the key.
C11_InactiveRecordingIsRejected ==
    [][(pc \in {"SaveKey", "ClearKey", "AssignKey"} /\ NoActiveSample(temp_key))
        => gesture_key' = gesture_key]_vars

\* the indices of the active samples of a sequence
ActiveAt(data) == {j \in 1..Len(data) : ~Inactive(data[j])}

\* the least and the greatest element of a non-empty set of numbers
Least(S) == CHOOSE x \in S : \A y \in S : x <= y
Greatest(S) == CHOOSE x \in S : \A y \in S : y <= x

\* C12: for a sequence with an active sample, first at L and last at R,
\* trim_gyro_data stays in range and leaves exactly the samples L..R in their
\* order (inactive samples between them kept), R - L + 1 of them.
C12_TrimKeepsFirstToLastActive ==
    (pc # "Trimming" /\ ActiveAt(call_input) # {}) =>
        /\ ~trim_out_of_range
        /\ pc # "Fault"
        /\ Len(temp_key) = Greatest(ActiveAt(call_input)) - Least(ActiveAt(call_input)) + 1
        /\ \A j \in 1..Len(temp_key) :
              temp_key[j] = call_input[Least(ActiveAt(call_input)) + j - 1]

\* C12: a sequence has been trimmed at both ends and kept an inactive sample
\* between two active ones
C12_Witness ==
    /\ pc # "Trimming"
    /\ Len(call_input) = 4
    /\ ActiveAt(call_input) = {2, 4}
    /\ Len(temp_key) = 3
    /\ Inactive(temp_key[2])

(***************************************************************************)
(* trim_gyro_data applied twice: the second call takes what the first      *)
(* left.                                                                   *)
(***************************************************************************)
TrimAgain ==
    /\ pc \in {"SaveKey", "CompareKey"}
    /\ \E t \in trim_gyro_data(temp_key) :
          /\ temp_key' = t.data
          /\ trim_out_of_range' = t.out_of_range
          /\ pc' = IF t.fault THEN "Fault" ELSE "Retrimmed"
    /\ UNCHANGED <<flags, flag_check, display_buffer, correlationResult, key_vars,
                   led_vars, filter_vars, gyro_vars, key_history, call_input,
                   compared, env_vars>>

TrimTwiceNext == Trim \/ TrimAgain

TrimTwiceSpec == TrimInit /\ [][TrimTwiceNext]_vars

\* C13: for every sequence, a second trim_gyro_data returns and leaves the
\* sequence as the first one left it.
C13_TrimIsIdempotent ==
    [][(pc \in {"SaveKey", "CompareKey"})
        => (pc' = "Retrimmed" /\ temp_key' = temp_key)]_vars

(***************************************************************************)
(* gyro.cpp: InitiateGyroscope applied on its own, any number of times,    *)
(* to a full-scale selector and to the 128 readings its calibration burst  *)
(* takes: the first half of the burst reads `first`, the second `second`.  *)
(* Between two calls the sensor can be powered off.                        *)
(***************************************************************************)
\* a selector that is no case of the switch
FULL_SCALE_OTHER == "FULL_SCALE_OTHER"

Selectors ==
    {FULL_SCALE_245, FULL_SCALE_500, FULL_SCALE_2000, FULL_SCALE_2000_ALT,
     FULL_SCALE_OTHER}

\* raw int16 readings: small, negative, and large enough for 128 of them to
\* leave the range of an int16_t sum
BurstReadings == {<<2, 2, 2>>, <<5, 256, -3>>, <<-3, 5, 256>>}

BurstOf(first, second) ==
    [i \in 1..CALIBRATION_SAMPLES |->
        IF 2 * i <= CALIBRATION_SAMPLES THEN first ELSE second]

\* gyro.cpp 79-107: InitiateGyroscope up to its call of CalibrateGyroscope:
\* the registers are written (CTRL_REG_1 with POWERON) and the sensitivity is
\* set by the switch on conf4; call_input keeps the arguments of the call
InitiateGyroscope ==
    /\ pc \in {"Calibrating", "Initiated"}
    /\ \E conf4 \in Selectors, first \in BurstReadings, second \in BurstReadings :
          /\ call_input' = [conf4 |-> conf4, first |-> first, second |-> second]
          /\ sensitivity' = SensitivityOf(conf4, sensitivity)
    /\ powered' = TRUE
    /\ pc' = "Burst"
    /\ UNCHANGED <<flags, flag_check, temp_key, display_buffer, correlationResult,
                   key_vars, led_vars, filter_vars, xyz_threshold, xyz_sample,
                   raw_data, trim_out_of_range, key_history, compared, env_vars>>

\* gyro.cpp 61-70: the first reading of the burst: the thresholds are raised
\* to it and the function spins in wait_us(10000); the other readings of the
\* first half are the same and leave the thresholds and raw_data as they are
BurstFirstHalf ==
    /\ pc = "Burst"
    /\ raw_data' = call_input.first
    /\ xyz_threshold' =
          CalibrateStep([sum |-> <<0, 0, 0>>, threshold |-> xyz_threshold],
                        call_input.first).threshold
    /\ pc' = "BurstFirstHalf"
    /\ UNCHANGED <<flags, flag_check, temp_key, display_buffer, correlationResult,
                   key_vars, led_vars, filter_vars, xyz_sample, sensitivity, powered,
                   history_vars, env_vars>>

\* gyro.cpp 61-70: the first reading of the second half of the burst and the
\* wait_us after it; the readings after it are the same
BurstSecondHalf ==
    /\ pc = "BurstFirstHalf"
    /\ raw_data' = call_input.second
    /\ xyz_threshold' =
          CalibrateStep([sum |-> <<0, 0, 0>>, threshold |-> xyz_threshold],
                        call_input.second).threshold
    /\ pc' = "BurstSecondHalf"
    /\ UNCHANGED <<flags, flag_check, temp_key, display_buffer, correlationResult,
                   key_vars, led_vars, filter_vars, xyz_sample, sensitivity, powered,
                   history_vars, env_vars>>

\* gyro.cpp 72-76, 108-110: the loop ends after the last wait_us, the zero-rate
\* samples are set from the int16_t sums of the 128 readings, and
\* InitiateGyroscope returns
BurstEnd ==
    /\ pc = "BurstSecondHalf"
    /\ \E c \in {CalibrateGyroscope(BurstOf(call_input.first, call_input.second),
                                    xyz_threshold)} :
          /\ xyz_threshold' = c.threshold
          /\ xyz_sample' = c.sample
    /\ pc' = "Initiated"
    /\ UNCHANGED <<flags, flag_check, temp_key, display_buffer, correlationResult,
                   key_vars, led_vars, filter_vars, sensitivity, raw_data, powered,
                   history_vars, env_vars>>

\* gyro.cpp 137-140: PowerOff writes 0 to CTRL_REG_1.  No statement of the
\* program calls it: it is applied here, between two calls of
\* InitiateGyroscope, and is no step of gyroscope_thread.
PowerOff ==
    /\ pc \in {"Calibrating", "Initiated"}
    /\ powered' = FALSE
    /\ UNCHANGED <<flags, thread_vars, key_vars, led_vars, filter_vars,
                   xyz_threshold, xyz_sample, sensitivity, raw_data, history_vars,
                   env_vars>>

GyroInit ==
    /\ Startup
    /\ pc = "Calibrating"
    /\ temp_key = <<>>
    /\ call_input = <<>>
    /\ gesture_axis = <<1, 2, 2>>
    /\ byte_order = "low_first"

GyroNext ==
    \/ InitiateGyroscope
    \/ BurstFirstHalf
    \/ BurstSecondHalf
    \/ BurstEnd
    \/ PowerOff

GyroSpec == GyroInit /\ [][GyroNext]_vars

\* C14: a calibration on 128 readings all equal to v leaves bias v and noise
\* threshold v on every axis, from the initial state and after earlier
\* calibrations.
C14_ConstantBurstGivesItsValue ==
    (pc = "Initiated" /\ call_input.first = call_input.second) =>
        /\ xyz_sample = call_input.first
        /\ xyz_threshold = call_input.first

\* C15: after any calibration the noise threshold of each axis is the
\* greatest raw value of that burst alone, whatever was calibrated before.
C15_ThresholdIsMaxOfBurst ==
    pc = "Initiated" =>
        \A k \in Axes :
            xyz_threshold[k] = Max(call_input.first[k], call_input.second[k])

\* C19: InitiateGyroscope does not return normally for a full-scale selector
\* that is none of the recognised ones.
C19_UnknownSelectorIsReported ==
    pc = "Initiated" =>
        call_input.conf4 \in {FULL_SCALE_245, FULL_SCALE_500, FULL_SCALE_2000,
                              FULL_SCALE_2000_ALT}

(***************************************************************************)
(* correlation applied on its own to two sequences of integer values.      *)
(***************************************************************************)
MaxCorrLen == 3

\* the values of the elements
CorrValues == {F(-1), F(0), F(1), F(2)}

\* one call each of correlation(a, b), correlation(b, a) and correlation(a, a)
Correlate ==
    /\ pc = "Correlating"
    /\ \E ab \in {correlation(call_input.a, call_input.b)},
          ba \in {correlation(call_input.b, call_input.a)},
          aa \in {correlation(call_input.a, call_input.a)} :
          correlationResult' = <<ab, ba, aa>>
    /\ pc' = "Correlated"
    /\ UNCHANGED <<flags, flag_check, temp_key, display_buffer, key_vars, led_vars,
                   filter_vars, gyro_vars, history_vars, env_vars>>

CorrInit ==
    /\ Startup
    /\ pc = "Correlating"
    /\ temp_key = <<>>
    /\ call_input \in [a : SeqsUpTo(CorrValues, MaxCorrLen),
                       b : SeqsUpTo(CorrValues, MaxCorrLen)]
    /\ gesture_axis = <<1, 2, 2>>
    /\ byte_order = "low_first"

CorrSpec == CorrInit /\ [][Correlate]_vars

\* all elements of a are the same (so also the empty sequence)
ZeroVariance(a) == \A i \in 1..Len(a), j \in 1..Len(a) : a[i] = a[j]

\* the value of a correlation that is not NaN is exactly 1
IsOne(c) == ~c.nan /\ FLt(FZero, c.num) /\ FMul(c.num, c.num) = c.rad

\* the value of a correlation that is not NaN lies in [-1, 1]
WithinUnit(c) == FLe(FMul(c.num, c.num), c.rad)

\* C16: the correlation of a sequence with itself is exactly 1 whenever the
\* sequence has nonzero variance.
C16_SelfCorrelationIsOne ==
    (pc = "Correlated" /\ ~ZeroVariance(call_input.a)) => IsOne(correlationResult[3])

\* C17: a correlation that is not NaN lies between -1 and 1.
C17_CorrelationWithinUnit ==
    pc = "Correlated" =>
        \A i \in 1..3 : ~correlationResult[i].nan => WithinUnit(correlationResult[i])

\* C18: the correlation is NaN when the two lengths differ, when all the data
\* are zero (both sequences empty included), or when either sequence has zero
\* variance.
C18_DegenerateInputsGiveNaN ==
    (/\ pc = "Correlated"
     /\ \/ Len(call_input.a) # Len(call_input.b)
        \/ ZeroVariance(call_input.a)
        \/ ZeroVariance(call_input.b)) => correlationResult[1].nan

\* the steps of pc that the session order allows, from the thread's first
\* wait on; the burst is part of Calibrating, waiting for a sample is part of
\* Recording, clearing and assigning the key are part of SaveKey
SessionOrder ==
    {<<"Idle", "Calibrating">>, <<"Calibrating", "Burst">>,
     <<"Burst", "BurstWait">>, <<"BurstWait", "Countdown">>,
     <<"Countdown", "Recording">>, <<"Recording", "DataWait">>,
     <<"DataWait", "Recording">>, <<"Recording", "Trimming">>,
     <<"Trimming", "SaveKey">>, <<"Trimming", "CompareKey">>,
     <<"SaveKey", "ClearKey">>, <<"ClearKey", "AssignKey">>,
     <<"SaveKey", "Idle">>, <<"AssignKey", "Idle">>, <<"CompareKey", "Idle">>}

\* C20: every session goes Idle, Calibrating, Countdown, Recording, Trimming,
\* then exactly one of SaveKey and CompareKey, then Idle; SaveKey is entered
\* only for a record trigger, CompareKey only for an unlock trigger, and a
\* session started with an unlock trigger ends in CompareKey.
C20_SessionOrder ==
    [][(pc' # pc /\ pc # "Start") =>
          /\ <<pc, pc'>> \in SessionOrder
          /\ (pc' = "SaveKey") => KEY_FLAG \in flag_check
          /\ (pc' = "CompareKey") => UNLOCK_FLAG \in flag_check
          /\ (pc = "Trimming" /\ UNLOCK_FLAG \in flag_check) => pc' = "CompareKey"]_vars

\* the positions of a session before its save or comparison
InSession ==
    {"Calibrating", "Burst", "BurstWait", "Countdown", "Recording", "DataWait", "Trimming"}

\* the step raises a record, unlock or erase trigger
TriggerRaised == (flags' \cap Triggers) # (flags \cap Triggers)

\* C21: a record, unlock or erase trigger raised while a session calibrates,
\* counts down, records or trims changes neither the temporary sequence nor
\* the stored key nor the position of the thread, the flags the session woke
\* up with stay as they were until it is back waiting, and the session saves
\* or compares according to those flags alone.
C21_SessionNotPreempted ==
    [][/\ (pc \in InSession /\ TriggerRaised)
          => (temp_key' = temp_key /\ gesture_key' = gesture_key /\ pc' = pc)
       /\ (pc # "Idle") => flag_check' = flag_check
       /\ (pc' = "Idle" /\ pc \in InSession) => FALSE
       /\ (pc = "Trimming" /\ pc' = "SaveKey") => KEY_FLAG \in flag_check
       /\ (pc = "Trimming" /\ pc' = "CompareKey") => KEY_FLAG \notin flag_check]_vars

\* C21: an unlock session has reached its comparison with its recording
\* although a record trigger and an erase trigger were raised during it
C21_Witness ==
    /\ pc = "CompareKey"
    /\ temp_key # <<>>
    /\ KEY_FLAG \in flags
    /\ ERASE_FLAG \in flags

\* C22: a session that has started leaves its recording loop and comes back
\* to waiting for triggers, and the loop is left only for the trim that
\* follows the 3-second window.
C22_SessionRunsToCompletion ==
    /\ (pc \in {"Recording", "DataWait"}) ~> (pc = "Trimming")
    /\ (pc = "Calibrating") ~> (pc = "Idle")
    /\ [][(pc \in {"Recording", "DataWait"})
            => (pc' \in {"Recording", "DataWait", "Trimming"})]_vars

\* C23: at every comparison of an unlock session the key and the attempt are
\* cut to the shorter of their two lengths before the correlations, so both
\* sequences handed to correlation have that one length.
C23_ComparedAtEqualLength ==
    compared # <<>> =>
        /\ compared.a = Min(compared.key, compared.attempt)
        /\ compared.b = Min(compared.key, compared.attempt)

\* C23: a comparison has been made of a key and an attempt of different lengths
C23_Witness ==
    /\ compared # <<>>
    /\ compared.key # compared.attempt
    /\ pc = "Idle"

(***************************************************************************)
(* movingAverageFilter on its own: pushes of values on the three windows.  *)
(***************************************************************************)
MaxPushes == 7

\* the values pushed: halves of small integers, which are floats and whose
\* sums are floats
FilterValues == {F(3), Rat(-1, 2)}

\* one call of movingAverageFilter on the window of axis k; call_input keeps
\* the values pushed on each axis so far, the axis and the value returned
Push ==
    /\ pc = "Filtering"
    /\ Len(call_input.pushed[1]) + Len(call_input.pushed[2])
          + Len(call_input.pushed[3]) < MaxPushes
    /\ \E k \in Axes, v \in FilterValues :
       \E f \in {movingAverageFilter(v, gyro_buffer[k], gyro_index[k], gyro_sum[k])},
          g \in {movingAverageFilter32(Float32(v), gyro_buffer_f[k], gyro_index[k],
                                       gyro_sum_f[k])} :
          /\ gyro_buffer_f' = [gyro_buffer_f EXCEPT ![k] = g.buffer]
          /\ gyro_sum_f' = [gyro_sum_f EXCEPT ![k] = g.sum]
          /\ gyro_index' = [gyro_index EXCEPT ![k] = g.index]
          /\ gyro_buffer' = [gyro_buffer EXCEPT ![k] = f.buffer]
          /\ gyro_sum' = [gyro_sum EXCEPT ![k] = f.sum]
          /\ call_input' = [pushed |-> [call_input.pushed EXCEPT ![k] = Append(@, v)],
                            axis |-> k, out |-> f.out]
    /\ UNCHANGED <<flags, thread_vars, key_vars, led_vars, gyro_vars,
                   trim_out_of_range, key_history, compared, env_vars>>

FilterInit ==
    /\ Startup
    /\ pc = "Filtering"
    /\ temp_key = <<>>
    /\ call_input = [pushed |-> <<<<>>, <<>>, <<>>>>, axis |-> 1, out |-> FZero]
    /\ gesture_axis = <<1, 2, 2>>
    /\ byte_order = "low_first"

FilterSpec == FilterInit /\ [][Push]_vars

\* the sum of the entries j..Len(buffer) of a window
RECURSIVE WindowSum(_, _)
WindowSum(buffer, j) ==
    IF j > Len(buffer) THEN FZero ELSE FAdd(buffer[j], WindowSum(buffer, j + 1))

\* the pushes (positions in the history h) that wrote entry j of the window
WritesOf(h, j) == {p \in 1..Len(h) : (p - 1) % WINDOW_SIZE = j - 1}

\* entry j of the window after the pushes h: the last value written there, 0
\* when none was
EntryAfter(h, j) ==
    IF WritesOf(h, j) = {} THEN FZero
    ELSE h[CHOOSE p \in WritesOf(h, j) : \A q \in WritesOf(h, j) : q <= p]

\* C24: after any pushes on an axis the running sum is the sum of the 5
\* entries of its window, the window has 5 entries, the index is in 0..4,
\* every push has overwritten the oldest entry (each entry is the last value
\* pushed at its position), and the push returned the running sum / 5.
C24_FilterKeepsWindowSum ==
    /\ \A k \in Axes :
          /\ DOMAIN gyro_buffer[k] = 1..5
          /\ gyro_index[k] \in 0..4
          /\ gyro_index[k] = Len(call_input.pushed[k]) % 5
          /\ gyro_sum[k] = WindowSum(gyro_buffer[k], 1)
          /\ \A j \in 1..5 : gyro_buffer[k][j] = EntryAfter(call_input.pushed[k], j)
    /\ call_input.pushed[call_input.axis] # <<>>
          => call_input.out = FDiv(gyro_sum[call_input.axis], F(5))

\* C24: a window has been pushed past its end, so the push overwrote a value
\* that was pushed before, a different one
C24_Witness ==
    /\ Len(call_input.pushed[2]) = 6
    /\ call_input.axis = 2
    /\ call_input.pushed[2][1] # call_input.pushed[2][6]
    /\ gyro_index[2] = 1

(***************************************************************************)
(* The program with recordings long enough to fill the filter's windows:   *)
(* every recording loop takes WINDOW_SIZE - 1 samples or more.  The device *)
(* is turned about one axis, the bytes of a reading are read low byte      *)
(* first, the erase button is not pressed, a button is touched while the   *)
(* thread waits for a trigger and none is pending, and the sensor raises   *)
(* its data-ready line while the thread waits for it.                      *)
(***************************************************************************)
MaxSessionSamples == 4

\* main.cpp 239: LoopEnter for sessions of up to MaxSessionSamples samples
LoopEnterLong ==
    /\ pc = "Recording"
    /\ Len(temp_key) < MaxSessionSamples
    /\ pc' = "DataWait"
    /\ UNCHANGED <<flags, flag_check, temp_key, display_buffer, correlationResult,
                   key_vars, led_vars, filter_vars, gyro_vars, history_vars,
                   env_vars>>

\* main.cpp 239, 255-256: LoopExit after WINDOW_SIZE - 1 samples or more
LoopExitLong ==
    /\ pc = "Recording"
    /\ Len(temp_key) >= WINDOW_SIZE - 1
    /\ pc' = "Trimming"
    /\ UNCHANGED <<flags, flag_check, temp_key, display_buffer, correlationResult,
                   key_vars, led_vars, filter_vars, gyro_vars, history_vars,
                   env_vars>>

SessionsInit ==
    /\ Startup
    /\ call_input = <<>>
    /\ pc = "Start"
    /\ temp_key = <<>>
    /\ gesture_axis = <<3, 4, 0>>
    /\ byte_order = "low_first"

SessionsNext ==
    \/ ThreadStart
    \/ WaitAny
    \/ PowerOn
    \/ BurstReading
    \/ Calibrate
    \/ Countdown
    \/ LoopEnterLong
    \/ RecordSample
    \/ LoopExitLong
    \/ Trim
    \/ SaveKey
    \/ RemoveOldKey
    \/ ClearKey
    \/ AssignKey
    \/ CompareKey
    \/ pc = "Idle" /\ flags \cap Triggers = {} /\ TouchRecord
    \/ pc = "Idle" /\ flags \cap Triggers = {} /\ TouchUnlock
    \/ pc = "DataWait" /\ onGyroDataReady

SessionsSpec == SessionsInit /\ [][SessionsNext]_vars

\* the sum of the entries of a window but the one at index (from 0), its oldest
RECURSIVE SumOfLatest(_, _, _)
SumOfLatest(buffer, index, j) ==
    IF j > Len(buffer) THEN FZero
    ELSE FAdd(IF j = index + 1 THEN FZero ELSE buffer[j],
              SumOfLatest(buffer, index, j + 1))

\* the float a is the number q up to the rounding of the filter's float
\* sums: it is within 2^-20 of the float nearest to q
NearTo(a, q) == AbsLe32(Sub32(a, Float32(q)), <<1, -20>>)

\* C25: the filter's windows, indices and sums are not reset between
\* sessions: no step but the push of a sample changes them, and at the
\* first push of a session, on each axis, the sum of the window is the sum
\* of the last 4 conditioned values pushed before, those of the session
\* before, + the new conditioned value, and the first smoothed sample is
\* the float the program has for that sum / 5.
C25_FilterCarriesOverSessions ==
    [][/\ (pc # "DataWait") => UNCHANGED filter_vars
       /\ (pc = "DataWait" /\ pc' = "Recording" /\ temp_key = <<>>) =>
             \A k \in Axes :
                 /\ gyro_sum'[k] =
                        FAdd(SumOfLatest(gyro_buffer[k], gyro_index[k], 1),
                             ConvertToDPS(raw_data'[k], sensitivity))
                 /\ NearTo(temp_key'[1][k], FDiv(gyro_sum'[k], F(WINDOW_SIZE)))]_vars

\* C25: a key was saved by a session of WINDOW_SIZE - 1 samples or more, and
\* the first sample of a later session differs from the new value / 5, which
\* it would be with windows reset
C25_Witness ==
    /\ key_history = "saved"
    /\ gesture_key # <<>>
    /\ Len(temp_key) = 1
    /\ pc = "Recording"
    /\ ~NearTo(temp_key[1][1], FDiv(ConvertToDPS(raw_data[1], sensitivity), F(WINDOW_SIZE)))

\* C26: whenever the thread waits for a trigger exactly one of the green and
\* the red LED is on, and the red one only if a key is stored.
C26_LedsShowKeyPresence ==
    pc = "Idle" =>
        /\ led_status_green + led_status_red = 1
        /\ led_status_red = 1 => KeyPresent

====
